---- MODULE Spec2Model ----
(***************************************************************************)
(* Model of the on-page btree layout macros of src/inc_posix/btree.h:      *)
(* address translation (WT_ADDR_TO_OFF / WT_OFF_TO_ADDR), the packed item  *)
(* header (WT_ITEM_LEN / WT_ITEM_TYPE and their setters), the item         *)
(* footprint (WT_ITEM_SPACE_REQ) and the item walk (WT_ITEM_FOREACH).      *)
(*                                                                         *)
(* Fixed-width C integers are sequences of bits, least significant bit     *)
(* first, so that 32-bit and 64-bit values keep their width.               *)
(***************************************************************************)
EXTENDS Integers, Sequences, FiniteSets

VARIABLES
    item_chunk,  \* WT_ITEM.__item_chunk of the header under edit (32 bits)
    op,          \* last macro applied to the header
    arg,         \* its argument (32 bits)
    old,         \* __item_chunk before that macro ran
    hdr0,        \* the header as it was before any macro ran
    wtype,       \* type last stored by WT_ITEM_TYPE_SET, or NoBits
    wlen,        \* length last stored by WT_ITEM_LEN_SET, or NoBits
    oversized,   \* a length above WT_ITEM_MAX_LEN has been passed
    allocsize,   \* db->allocsize
    off,         \* byte offset (off_t, 64 bits), or NoBits
    addr,        \* address computed by WT_OFF_TO_ADDR (32 bits), or NoBits
    inAddr,      \* address last given to WT_ADDR_TO_OFF (32 bits), or NoBits
    aop,         \* last address macro applied
    flen,        \* length last given to WT_ITEM_SPACE_REQ
    fsize,       \* its result
    page,        \* the WT_PAGE walked: addr, bytes, hdr->u.entries
    item,        \* WT_ITEM_FOREACH cursor, as a byte offset from page->hdr
    i,           \* WT_ITEM_FOREACH counter
    wpc,         \* position in the for loop
    visited      \* items handed to the loop body: <<offset, header>> records

itemVars == <<item_chunk, op, arg, old, hdr0, wtype, wlen, oversized>>
addrVars == <<allocsize, off, addr, inAddr, aop>>
footVars == <<flen, fsize>>
walkVars == <<page, item, i, wpc, visited>>
vars == <<itemVars, addrVars, footVars, walkVars>>

---------------------------------------------------------------------------
(* Fixed-width integers.                                                   *)

\* The w-bit representation of n, 0 <= n < 2^31.
Bits(n, w) == [k \in 1..w |-> IF k > 31 THEN 0 ELSE (n \div (2 ^ (k - 1))) % 2]

RECURSIVE BitsVal(_)
\* The number a bit sequence stands for (used below 2^31 only).
BitsVal(b) == IF b = <<>> THEN 0 ELSE Head(b) + 2 * BitsVal(Tail(b))

\* C's & and | on equal-width values.
BitAnd(x, y) == [k \in 1..Len(x) |-> IF x[k] = 1 /\ y[k] = 1 THEN 1 ELSE 0]
BitOr(x, y) == [k \in 1..Len(x) |-> IF x[k] = 1 \/ y[k] = 1 THEN 1 ELSE 0]
BitNot(x) == [k \in 1..Len(x) |-> 1 - x[k]]

\* Zero extension to w bits, and truncation to the low w bits (a C cast).
ZeroExt(x, w) == [k \in 1..w |-> IF k <= Len(x) THEN x[k] ELSE 0]
Trunc(x, w) == [k \in 1..w |-> x[k]]

\* x << n within the width of x.
Shl(x, n) == [k \in 1..Len(x) |-> IF k - n >= 1 THEN x[k - n] ELSE 0]

\* The number held by byte j (from 0, least significant first) of x.
Slice(x, j) ==
    x[8 * j + 1] + 2 * x[8 * j + 2] + 4 * x[8 * j + 3] + 8 * x[8 * j + 4]
    + 16 * x[8 * j + 5] + 32 * x[8 * j + 6] + 64 * x[8 * j + 7]
    + 128 * x[8 * j + 8]

RECURSIVE AddFrom(_, _, _, _)
\* Byte-wise addition of the bytes j.. of x and y with carry c.
AddFrom(x, y, j, c) ==
    IF 8 * j >= Len(x) THEN <<>>
    ELSE Bits((Slice(x, j) + Slice(y, j) + c) % 256, 8)
         \o AddFrom(x, y, j + 1, (Slice(x, j) + Slice(y, j) + c) \div 256)

\* x + y modulo 2^Len(x).
BitAdd(x, y) == AddFrom(x, y, 0, 0)

\* Two's complement negation.
BitNeg(x) == BitAdd(BitNot(x), Bits(1, Len(x)))

RECURSIVE ScaleFrom(_, _, _, _)
\* Byte-wise product of the bytes j.. of y by the number d < 256, carry c.
ScaleFrom(y, d, j, c) ==
    IF 8 * j >= Len(y) THEN <<>>
    ELSE Bits((Slice(y, j) * d + c) % 256, 8)
         \o ScaleFrom(y, d, j + 1, (Slice(y, j) * d + c) \div 256)

RECURSIVE MulFrom(_, _, _, _)
\* Long multiplication over the bytes j.. of x, from the partial sum acc.
MulFrom(x, y, j, acc) ==
    IF 8 * j >= Len(acc) THEN acc
    ELSE MulFrom(x, y, j + 1,
                 BitAdd(acc, Shl(ScaleFrom(y, Slice(x, j), 0, 0), 8 * j)))

\* x * y modulo 2^Len(x).
BitMul(x, y) == MulFrom(x, y, 0, Bits(0, Len(x)))

RECURSIVE DivBits(_, _, _, _, _, _)
\* Long division by the number u over the n bits k, k-1, .. of x, from
\* remainder r and quotient q: the quotient of these bits and the remainder.
DivBits(x, u, k, n, r, q) ==
    IF n = 0 THEN [q |-> q, r |-> r]
    ELSE IF 2 * r + x[k] >= u
         THEN DivBits(x, u, k - 1, n - 1, 2 * r + x[k] - u, 2 * q + 1)
         ELSE DivBits(x, u, k - 1, n - 1, 2 * r + x[k], 2 * q)

RECURSIVE DivFrom(_, _, _, _, _)
\* Long division by u over the bytes j-1, .., 0 of x, most significant first,
\* from remainder r and quotient bits qs: the quotient and the remainder.
DivFrom(x, u, j, r, qs) ==
    IF j = 0 THEN [q |-> qs, r |-> r]
    ELSE DivFrom(x, u, j - 1, DivBits(x, u, 8 * j, 8, r, 0).r,
                 Bits(DivBits(x, u, 8 * j, 8, r, 0).q, 8) \o qs)

\* x / u and x % u for a non-negative x and a number 0 < u <= 2^30.
BitQuot(x, u) == DivFrom(x, u, Len(x) \div 8, 0, <<>>).q
BitMod(x, u) == DivFrom(x, u, Len(x) \div 8, 0, <<>>).r

\* C's signed division of a two's complement x by u > 0 (truncates toward zero).
BitDiv(x, u) ==
    IF x[Len(x)] = 1 THEN BitNeg(BitQuot(BitNeg(x), u))
    ELSE BitQuot(x, u)

NoBits == <<>>

---------------------------------------------------------------------------
(* The packed item header: struct __wt_item and its macros.                *)

WT_ITEM_MAX_LEN == 16777215

WT_ITEM_KEY == 16777216
WT_ITEM_KEY_OVFL == 33554432
WT_ITEM_DATA == 50331648
WT_ITEM_DATA_OVFL == 67108864
WT_ITEM_DUP == 83886080
WT_ITEM_DUP_OVFL == 100663296
WT_ITEM_OFFPAGE == 117440512

\* The masks of WT_ITEM_LEN (0x00ffffff) and WT_ITEM_TYPE (0x0f000000).
LenMask == 16777215
TypeMask == 251658240

ItemTypeCodes ==
    {WT_ITEM_KEY, WT_ITEM_KEY_OVFL, WT_ITEM_DATA, WT_ITEM_DATA_OVFL,
     WT_ITEM_DUP, WT_ITEM_DUP_OVFL, WT_ITEM_OFFPAGE}

ItemTypes == {Bits(t, 32) : t \in ItemTypeCodes}

WT_ITEM_LEN(chunk) == BitAnd(chunk, Bits(LenMask, 32))

WT_ITEM_TYPE(chunk) == BitAnd(chunk, Bits(TypeMask, 32))

\* WT_ITEM_LEN_SET without the mask that drops the old length.
LenSetKeepsOldBits(chunk, len) == BitOr(chunk, len)

\* WT_ITEM_TYPE_SET that stores the type alone.
TypeSetDropsLen(chunk, type) == type

\* The value WT_ITEM_LEN_SET assigns to __item_chunk.
WT_ITEM_LEN_SET(chunk, len) == BitOr(WT_ITEM_TYPE(chunk), len)

\* The value WT_ITEM_TYPE_SET assigns to __item_chunk.
WT_ITEM_TYPE_SET(chunk, type) == BitOr(WT_ITEM_LEN(chunk), type)

\* len <= WT_ITEM_MAX_LEN, for a 32-bit len.
LenFits(len) == \A k \in 25..32 : len[k] = 0

AllOnes32 == [k \in 1..32 |-> 1]

\* Lengths handed to WT_ITEM_LEN_SET: the ends of the 24-bit range and values above it.
LenSamples ==
    {Bits(n, 32) : n \in {0, 1, WT_ITEM_MAX_LEN - 1, WT_ITEM_MAX_LEN,
                           WT_ITEM_MAX_LEN + 1, WT_ITEM_MAX_LEN + 2}}
    \cup {AllOnes32}

\* Headers a macro may be applied to: zeroed memory and arbitrary page bytes.
HeaderSamples == {Bits(0, 32), AllOnes32, Bits(1509949445, 32)}

InitItem ==
    /\ item_chunk \in HeaderSamples
    /\ hdr0 = item_chunk
    /\ old = item_chunk
    /\ op = "none"
    /\ arg = NoBits
    /\ wtype = NoBits
    /\ wlen = NoBits
    /\ oversized = FALSE

LenSet ==
    \E len \in LenSamples :
        /\ item_chunk' = WT_ITEM_LEN_SET(item_chunk, len)
        /\ old' = item_chunk
        /\ op' = "LEN_SET"
        /\ arg' = len
        /\ wlen' = len
        /\ oversized' = (oversized \/ ~LenFits(len))
        /\ UNCHANGED <<hdr0, wtype, addrVars, footVars, walkVars>>

TypeSet ==
    \E type \in ItemTypes :
        /\ item_chunk' = WT_ITEM_TYPE_SET(item_chunk, type)
        /\ old' = item_chunk
        /\ op' = "TYPE_SET"
        /\ arg' = type
        /\ wtype' = type
        /\ UNCHANGED <<hdr0, wlen, oversized, addrVars, footVars, walkVars>>

---------------------------------------------------------------------------
(* Address translation: WT_ADDR_TO_OFF and WT_OFF_TO_ADDR.                 *)

\* WT_ADDR_TO_OFF without the off_t cast: a 32-bit product.
AddrToOffNoCast(db_allocsize, a) ==
    ZeroExt(BitMul(a, Bits(db_allocsize, 32)), 64)

\* (off_t)(addr) * (db)->allocsize, in 64-bit arithmetic.
WT_ADDR_TO_OFF(db_allocsize, a) ==
    BitMul(ZeroExt(a, 64), Bits(db_allocsize, 64))

\* (u_int32_t)((off) / (db)->allocsize).
WT_OFF_TO_ADDR(db_allocsize, o) == Trunc(BitDiv(o, db_allocsize), 32)

WT_ADDR_FIRST_PAGE == 0
WT_ADDR_INVALID == AllOnes32

\* Allocation unit sizes: from one byte, through the 512B minimum, to the 1GB
\* unit of the largest (4EB) database the header describes.
AllocSamples == {1, 3, 512, 1000, 4096, 1073741824}

\* Addresses: the first page, small ones, 2^31 - 1, 2^31, and the largest
\* address below WT_ADDR_INVALID.
AddrSamples ==
    {Bits(n, 32) : n \in {WT_ADDR_FIRST_PAGE, 1, 2, 7, 4194303, 2147483647}}
    \cup {[k \in 1..32 |-> IF k = 32 THEN 1 ELSE 0],
          [k \in 1..32 |-> IF k = 1 THEN 0 ELSE 1]}

\* Byte offsets handed to WT_OFF_TO_ADDR that no WT_ADDR_TO_OFF produced.
OffSamples ==
    {Bits(n, 64) : n \in {0, 1, 2, 511, 512, 513, 1000, 1023, 1024, 4095,
                           4096, 4097, 1073741823, 1073741824, 2147483647}}

InitAddr ==
    /\ allocsize \in AllocSamples
    /\ off = NoBits
    /\ addr = NoBits
    /\ inAddr = NoBits
    /\ aop = "none"

AddrToOff ==
    \E a \in AddrSamples :
        /\ off' = WT_ADDR_TO_OFF(allocsize, a)
        /\ inAddr' = a
        /\ aop' = "ADDR_TO_OFF"
        /\ UNCHANGED <<allocsize, addr, itemVars, footVars, walkVars>>

\* WT_OFF_TO_ADDR applied to the offset WT_ADDR_TO_OFF returned.
OffToAddrBack ==
    /\ aop = "ADDR_TO_OFF"
    /\ addr' = WT_OFF_TO_ADDR(allocsize, off)
    /\ aop' = "ROUND_TRIP"
    /\ UNCHANGED <<allocsize, off, inAddr, itemVars, footVars, walkVars>>

\* WT_OFF_TO_ADDR applied to a byte offset of the caller's.
OffToAddr ==
    \E o \in OffSamples :
        /\ off' = o
        /\ addr' = WT_OFF_TO_ADDR(allocsize, o)
        /\ aop' = "OFF_TO_ADDR"
        /\ UNCHANGED <<allocsize, inAddr, itemVars, footVars, walkVars>>

---------------------------------------------------------------------------
(* Item footprint: WT_ITEM_SPACE_REQ.                                      *)

WT_ITEM_SIZE == 4
SizeofU32 == 4

\* n rounded up to a multiple of v.
WT_ALIGN(n, v) == ((n + (v - 1)) \div v) * v

\* WT_ITEM_SPACE_REQ that leaves the item header out.
SpaceReqNoHeader(len) == WT_ALIGN(len, SizeofU32)

WT_ITEM_SPACE_REQ(len) == WT_ALIGN(WT_ITEM_SIZE + len, SizeofU32)

MaxFootLen == 120

\* Lengths handed to WT_ITEM_SPACE_REQ: small ones of every residue, the ends
\* of the 24-bit item length range, and the top of the range computed here.
FootLens ==
    (0..MaxFootLen)
    \cup ((WT_ITEM_MAX_LEN - 4)..(WT_ITEM_MAX_LEN + 4))
    \cup (2147483632..2147483639)

InitFoot ==
    /\ flen = -1
    /\ fsize = 0

SpaceReq ==
    \E len \in FootLens :
        /\ flen' = len
        /\ fsize' = WT_ITEM_SPACE_REQ(len)
        /\ UNCHANGED <<itemVars, addrVars, walkVars>>

---------------------------------------------------------------------------
(* The item walk: WT_PAGE_BYTE, WT_ITEM_NEXT and WT_ITEM_FOREACH.          *)

WT_PAGE_HDR_SIZE == 32
WT_PAGE_DESC_SIZE == 64

\* WT_PAGE_BYTE that skips a descriptor on every page.
PageByteAlwaysDesc(p) == WT_PAGE_HDR_SIZE + WT_PAGE_DESC_SIZE

\* WT_ITEM_NEXT that advances by the unaligned size.
ItemNextUnaligned(it, chunk) == it + WT_ITEM_SIZE + BitsVal(WT_ITEM_LEN(chunk))

\* The first usable byte of the page, as an offset from page->hdr.
WT_PAGE_BYTE(p) ==
    WT_PAGE_HDR_SIZE + (IF p.addr = 0 THEN WT_PAGE_DESC_SIZE ELSE 0)

\* The first byte of the item after the one at offset it with header chunk.
WT_ITEM_NEXT(it, chunk) == it + WT_ITEM_SPACE_REQ(BitsVal(WT_ITEM_LEN(chunk)))

MaxEntries == 3

PageAddrs == {WT_ADDR_FIRST_PAGE, 1, 7}
PageSizes == {512, 4096}

\* The bytes of the page are an input of the walk.  The cursor only moves
\* forward, so no header is read twice and the header found at the cursor is
\* drawn when the walk reaches it: any 4 bytes, with lengths of every
\* residue modulo 4.
ItemHeaders ==
    {BitOr(Bits(t, 32), Bits(n, 32)) :
        t \in {WT_ITEM_KEY, WT_ITEM_OFFPAGE},
        n \in {0, 1, 462, WT_ITEM_MAX_LEN}}
    \cup {AllOnes32}

InitWalk ==
    /\ page \in [addr : PageAddrs, bytes : PageSizes, entries : 0..MaxEntries]
    /\ item = 0
    /\ i = 0
    /\ wpc = "start"
    /\ visited = <<>>

\* (item) = (WT_ITEM *)WT_PAGE_BYTE(page), (i) = (page)->hdr->u.entries
ForeachInit ==
    /\ wpc = "start"
    /\ item' = WT_PAGE_BYTE(page)
    /\ i' = page.entries
    /\ wpc' = "test"
    /\ UNCHANGED <<page, visited, itemVars, addrVars, footVars>>

\* (i) > 0 holds: the loop body is handed the item at the cursor.
ForeachBody ==
    /\ wpc = "test"
    /\ i > 0
    /\ \E chunk \in ItemHeaders :
           visited' = Append(visited, [off |-> item, chunk |-> chunk])
    /\ wpc' = "body"
    /\ UNCHANGED <<page, item, i, itemVars, addrVars, footVars>>

\* (item) = WT_ITEM_NEXT(item), --(i)
ForeachNext ==
    /\ wpc = "body"
    /\ item' = WT_ITEM_NEXT(item, visited[Len(visited)].chunk)
    /\ i' = i - 1
    /\ wpc' = "test"
    /\ UNCHANGED <<page, visited, itemVars, addrVars, footVars>>

\* (i) > 0 fails: the loop ends.
ForeachExit ==
    /\ wpc = "test"
    /\ ~(i > 0)
    /\ wpc' = "done"
    /\ UNCHANGED <<page, item, i, visited, itemVars, addrVars, footVars>>

---------------------------------------------------------------------------
(* Specifications: the macros share no state, so each group is run on its   *)
(* own, the other groups' variables at rest.                               *)

IdleItem ==
    /\ item_chunk = NoBits
    /\ hdr0 = NoBits
    /\ old = NoBits
    /\ op = "none"
    /\ arg = NoBits
    /\ wtype = NoBits
    /\ wlen = NoBits
    /\ oversized = FALSE

IdleAddr ==
    /\ allocsize = 512
    /\ off = NoBits
    /\ addr = NoBits
    /\ inAddr = NoBits
    /\ aop = "none"

IdleWalk ==
    /\ page = [addr |-> WT_ADDR_FIRST_PAGE, bytes |-> 512, entries |-> 0]
    /\ item = 0
    /\ i = 0
    /\ wpc = "start"
    /\ visited = <<>>

IdleFoot ==
    /\ flen = -1
    /\ fsize = 0

InitItemSpec == InitItem /\ IdleAddr /\ IdleFoot /\ IdleWalk
InitAddrSpec == IdleItem /\ InitAddr /\ IdleFoot /\ IdleWalk
InitFootSpec == IdleItem /\ IdleAddr /\ InitFoot /\ IdleWalk
InitWalkSpec == IdleItem /\ IdleAddr /\ IdleFoot /\ InitWalk

NextItem == LenSet \/ TypeSet
NextAddr == AddrToOff \/ OffToAddrBack \/ OffToAddr
NextFoot == SpaceReq
NextWalk == ForeachInit \/ ForeachBody \/ ForeachNext \/ ForeachExit

SpecItem == InitItemSpec /\ [][NextItem]_vars
SpecAddr == InitAddrSpec /\ [][NextAddr]_vars
SpecFoot == InitFootSpec /\ [][NextFoot]_vars
SpecWalk == InitWalkSpec /\ [][NextWalk]_vars

---------------------------------------------------------------------------
(* Properties.                                                             *)

\* The number in the n-th 4-bit group of x (group 0 is bits 0-3).
Nibble(x, n) ==
    x[4 * n + 1] + 2 * x[4 * n + 2] + 4 * x[4 * n + 3] + 8 * x[4 * n + 4]

\* The number in bits 0-23 of a header.
Low24(x) == BitsVal(SubSeq(x, 1, 24))

\* C1: once a type and a length of at most 16,777,215 have been stored in a
\* header, in either order and whatever it held before (a zeroed header
\* included), WT_ITEM_TYPE and WT_ITEM_LEN read back the stored type and length.
C1_RoundTrip ==
    (~oversized /\ wtype # NoBits /\ wlen # NoBits)
        => /\ WT_ITEM_TYPE(item_chunk) = wtype
           /\ WT_ITEM_LEN(item_chunk) = wlen

\* C1: from a zeroed header, length 16,777,215 then type OFFPAGE were stored.
C1_Witness ==
    /\ hdr0 = Bits(0, 32)
    /\ ~oversized
    /\ op = "TYPE_SET"
    /\ wtype = Bits(WT_ITEM_OFFPAGE, 32)
    /\ wlen = Bits(WT_ITEM_MAX_LEN, 32)
    /\ Low24(item_chunk) = 16777215
    /\ Nibble(item_chunk, 6) = 7

\* C2: WT_ITEM_LEN_SET with a length above 16,777,215 is rejected and leaves
\* the header as it was.
C2_OversizeRejected ==
    (op = "LEN_SET" /\ ~LenFits(arg)) => item_chunk = old

\* C3: WT_ITEM_LEN_SET with a length of at most 16,777,215 leaves the type
\* read by WT_ITEM_TYPE as it was, and WT_ITEM_TYPE_SET leaves the length read
\* by WT_ITEM_LEN as it was, on any header.
C3_FieldPreserved ==
    /\ (op = "LEN_SET" /\ LenFits(arg))
          => WT_ITEM_TYPE(item_chunk) = WT_ITEM_TYPE(old)
    /\ (op = "TYPE_SET")
          => WT_ITEM_LEN(item_chunk) = WT_ITEM_LEN(old)

\* C3: both setters have replaced a field of a header whose other field was set.
C3_Witness ==
    \/ /\ op = "LEN_SET"
       /\ arg = Bits(1, 32)
       /\ WT_ITEM_TYPE(old) = Bits(WT_ITEM_DUP, 32)
       /\ Low24(old) = 16777215
       /\ Low24(item_chunk) = 1
       /\ Nibble(item_chunk, 6) = 5
    \/ /\ op = "TYPE_SET"
       /\ arg = Bits(WT_ITEM_KEY, 32)
       /\ WT_ITEM_TYPE(old) = Bits(WT_ITEM_OFFPAGE, 32)
       /\ Low24(old) = 16777214
       /\ Low24(item_chunk) = 16777214
       /\ Nibble(item_chunk, 6) = 1

\* C4: the item type is held in the top 4 bits (28-31) of the header, as a
\* code 1..7, and bits 24-27 are reserved: a type store leaves them alone.
C4_TypeInTopNibble ==
    (op = "TYPE_SET")
        => /\ Nibble(item_chunk, 7) \in 1..7
           /\ Nibble(item_chunk, 6) = Nibble(old, 6)

\* C5: WT_ITEM_SPACE_REQ(len) is a multiple of 4, at least 4 + len and less
\* than 4 + len + 4.
C5_Footprint ==
    (flen >= 0)
        => /\ fsize % 4 = 0
           /\ fsize >= 4 + flen
           /\ fsize < 4 + flen + 4

\* C5: the footprint of the largest on-page item has been computed.
C5_Witness == flen = 16777215 /\ fsize = 16777220

\* C6: WT_OFF_TO_ADDR applied to WT_ADDR_TO_OFF of an address returns it.
C6_AddrRoundTrip == (aop = "ROUND_TRIP") => addr = inAddr

\* C6: the largest valid address made the round trip with a 1GB unit.
C6_Witness ==
    /\ aop = "ROUND_TRIP"
    /\ allocsize = 1073741824
    /\ inAddr = [k \in 1..32 |-> IF k = 1 THEN 0 ELSE 1]
    /\ addr = inAddr
    /\ off[62] = 1

\* C7: WT_OFF_TO_ADDR returns an address only for a byte offset that is a
\* multiple of the allocation unit size.
C7_MisalignedRejected ==
    (aop = "OFF_TO_ADDR") => BitMod(off, allocsize) = 0

\* C8: the walk hands the loop body exactly hdr.u.entries items; the first is
\* at byte 32 of the page, or 96 on the page at address 0; each next one is at
\* the previous one plus 4 + its length rounded up to a multiple of 4.  The
\* loop can always take its next step until it is done, and i counts down.
C8_WalkSequence ==
    /\ (wpc = "done") => (Len(visited) = page.entries /\ i = 0)
    /\ (wpc = "test") => Len(visited) + i = page.entries
    /\ (wpc = "body") => Len(visited) + i = page.entries + 1
    /\ (wpc = "start") => visited = <<>>
    /\ (wpc # "done") => ENABLED NextWalk
    /\ (visited # <<>>)
          => visited[1].off = 32 + (IF page.addr = 0 THEN 64 ELSE 0)
    /\ \A k \in 1..(Len(visited) - 1) :
          LET d == visited[k + 1].off - visited[k].off
              len == Low24(visited[k].chunk)
          IN  d % 4 = 0 /\ d >= 4 + len /\ d < 4 + len + 4

\* C8: a walk of three items on the page at address 0 has ended.
C8_Witness ==
    /\ wpc = "done"
    /\ page.addr = 0
    /\ page.entries = 3
    /\ Len(visited) = 3
    /\ visited[1].off = 96
    /\ Low24(visited[1].chunk) = 1
    /\ visited[2].off = 104
    /\ Low24(visited[2].chunk) = 462
    /\ visited[3].off = 572

\* C9: every item header the walk reads and every item's data lie inside
\* the page's page->bytes bytes, and the cursor never passes the page end.
C9_InsideRegion ==
    /\ item <= page.bytes
    /\ \A k \in 1..Len(visited) :
          visited[k].off + 4 + Low24(visited[k].chunk) <= page.bytes

\* C10: the cursor, and every item handed to the loop body, is at a multiple
\* of 4 bytes from the page start.
C10_Aligned ==
    (wpc # "start")
        => /\ item % 4 = 0
           /\ \A k \in 1..Len(visited) : visited[k].off % 4 = 0

\* C10: the cursor has advanced past items of lengths 1 and 462 on the page
\* at address 0 and on another page.
C10_Witness ==
    /\ wpc = "test"
    /\ Len(visited) = 2
    /\ Low24(visited[1].chunk) = 1
    /\ Low24(visited[2].chunk) = 462
    /\ item \in {572, 508}

====
